---- MODULE Spec2Model ----
(***************************************************************************)
(* TrafficSignalController                                                 *)
(* (src/smart_traffic_system/controllers/traffic_controller.py) as a state *)
(* machine.  Time is the value time.time() returns; it is read once per    *)
(* call (the few reads inside one call are taken at the same instant) and  *)
(* advances between calls in steps of TimeStep seconds.                    *)
(***************************************************************************)
EXTENDS Integers, Sequences, FiniteSets, TLC

VARIABLES
    clock,                   \* value returned by time.time()
    current_side_index,      \* self.current_side_index
    current_side,            \* self.current_side
    signal_states,           \* self.signal_states : side -> SignalState
    low_traffic_start_time,  \* self.low_traffic_start_time (None or a time)
    green_start_time,        \* self.green_start_time
    current_green_duration,  \* self.current_green_duration
    emergency_mode,          \* self.emergency_mode
    emergency_side,          \* self.emergency_side
    total_cycles,            \* self.total_cycles
    signal_change_history,   \* self.signal_change_history
    result,                  \* what the last call saw and returned
    low_since,               \* observation: time of the first update of the
                             \* present unbroken run of low-count updates
    args,                    \* arguments of a call made on its own
    ret,                     \* what that call returned
    signal_controller,       \* the simulation's SignalController object
    intersection,            \* the simulation's Intersection object
    traffic_generator,       \* the random draws of its TrafficGenerator
    frame_count,             \* frame_count of the simulation's main loop
    processing,              \* live mode: where the processing thread is
                             \* in its call of update, and the call's locals
    gui,                     \* live mode: where the GUI thread is in its
                             \* refresh, and what it has read
    system,                  \* live mode: SmartTrafficSystem.running and
                             \* the state of its VideoManager
    threads                  \* live mode: where stop(), _processing_loop
                             \* and _capture_loop are

tscVars == <<current_side_index, current_side, signal_states,
             low_traffic_start_time, green_start_time,
             current_green_duration, emergency_mode, emergency_side,
             total_cycles, signal_change_history>>

vars == <<clock, current_side_index, current_side, signal_states,
          low_traffic_start_time, green_start_time, current_green_duration,
          emergency_mode, emergency_side, total_cycles,
          signal_change_history, result, low_since, args, ret,
          signal_controller, intersection, traffic_generator, frame_count,
          processing, gui, system, threads>>

\* the simulation (src/smart_traffic)
simVars == <<signal_controller, intersection, traffic_generator, frame_count>>

\* the two threads of the live mode (src/smart_traffic_system/main.py)
liveVars == <<processing, gui, system, threads>>

\* what the controller's methods never touch
outsideTSC == <<args, ret, simVars, liveVars>>

----------------------------------------------------------------------------
(* Bounds of the exploration *)

\* the clock stops at MaxTime
MaxTime == 30

\* seconds between two instants at which calls are made
TimeStep == 5

\* sides other than the active one that may carry an emergency flag at once
MaxFlaggedOthers == 1

----------------------------------------------------------------------------
(* config.py *)

MAX_GREEN_TIME == 30

MIN_GREEN_TIME == 10

CLEARANCE_THRESHOLD == 3

CLEARANCE_WAIT_TIME == 5

SIGNAL_SEQUENCE == <<"NORTH", "EAST", "SOUTH", "WEST">>

ENABLE_EMERGENCY_DETECTION == TRUE

\* key order of VIDEO_SOURCES, also the order of the dict in the module's
\* own test function
VIDEO_SOURCES == <<"NORTH", "SOUTH", "EAST", "WEST">>

----------------------------------------------------------------------------
(* Python values *)

\* None, for the optional times and the optional side
None == -1

NoSide == "None"

SignalState == {"RED", "YELLOW", "GREEN", "ALL_RED"}

Sides == {SIGNAL_SEQUENCE[i] : i \in 1..Len(SIGNAL_SEQUENCE)}

\* a target that is not in the configured sequence
UnknownSide == "CENTER"

\* list.index(side), 0-based as in Python
IndexOf(seq, side) == (CHOOSE i \in 1..Len(seq) : seq[i] = side) - 1

\* side in self.signal_sequence
InSequence(side) == \E i \in 1..Len(SIGNAL_SEQUENCE) : SIGNAL_SEQUENCE[i] = side

----------------------------------------------------------------------------
(* The vehicle_counts argument of update: for each side either no entry,  *)
(* a bare int, or a dict that may hold 'total_vehicles' and 'emergency'.  *)

Absent == [kind |-> "absent", has_total |-> FALSE, n |-> 0, emergency |-> FALSE]

EmptyDict == [kind |-> "dict", has_total |-> FALSE, n |-> 0, emergency |-> FALSE]

IntEntry(c) == [kind |-> "int", has_total |-> FALSE, n |-> c, emergency |-> FALSE]

DictEntry(c, e) == [kind |-> "dict", has_total |-> TRUE, n |-> c, emergency |-> e]

\* vehicle counts tried: none, exactly the threshold, just above it
Counts == {0, CLEARANCE_THRESHOLD, CLEARANCE_THRESHOLD + 1}

\* what the entry of the active side may be
Entries ==
    {Absent, EmptyDict} \cup {IntEntry(c) : c \in Counts}
        \cup {DictEntry(c, e) : c \in Counts, e \in BOOLEAN}

\* the snapshots tried while `cur` is active: any entry for cur, and for
\* the other sides a detector result with or without the emergency flag
Snapshots(cur) ==
    {[s \in Sides |-> IF s = cur THEN e
                      ELSE DictEntry(CLEARANCE_THRESHOLD + 1, s \in E)] :
        e \in Entries, E \in {X \in SUBSET (Sides \ {cur}) : Cardinality(X) <= MaxFlaggedOthers}}

\* iteration orders of the dict tried
Orders == {SIGNAL_SEQUENCE, VIDEO_SOURCES}

\* vehicle_counts.get(self.current_side, 0) followed by the dict/int split
current_vehicles_of(vehicle_counts, side) ==
    LET current_data == vehicle_counts[side] IN
    IF current_data.kind = "absent" THEN 0
    ELSE IF current_data.kind = "dict"
         THEN (IF current_data.has_total THEN current_data.n ELSE 0)
         ELSE current_data.n

\* isinstance(data, dict) and data.get('emergency', False)
HasEmergency(data) == data.kind = "dict" /\ data.emergency

\* check_emergency with a scan that stops one entry short
check_emergency_short(vehicle_counts, order) ==
    LET hits == {i \in 1..(Len(order) - 1) :
                    HasEmergency(vehicle_counts[order[i]])}
    IN IF hits = {} THEN NoSide
       ELSE order[CHOOSE i \in hits : \A j \in hits : i <= j]

\* _check_emergency: the first side, in iteration order, whose entry is a
\* dict with a true emergency flag
check_emergency(vehicle_counts, order) ==
    LET hits == {i \in 1..Len(order) : HasEmergency(vehicle_counts[order[i]])}
    IN IF hits = {} THEN NoSide
       ELSE order[CHOOSE i \in hits : \A j \in hits : i <= j]

----------------------------------------------------------------------------
(* Pure parts of the controller *)

\* should_switch_signal without the minimum-green test
should_switch_signal_no_floor(duration, current_vehicles, low, now) ==
    IF duration >= MAX_GREEN_TIME THEN [switch |-> TRUE, low |-> low]
    ELSE IF current_vehicles <= CLEARANCE_THRESHOLD
         THEN LET started == IF low = None THEN now ELSE low
              IN [switch |-> now - started >= CLEARANCE_WAIT_TIME,
                  low |-> started]
         ELSE [switch |-> FALSE, low |-> None]

\* should_switch_signal with > for >= in the maximum-green test
should_switch_signal_late(duration, current_vehicles, low, now) ==
    IF duration < MIN_GREEN_TIME THEN [switch |-> FALSE, low |-> low]
    ELSE IF duration > MAX_GREEN_TIME THEN [switch |-> TRUE, low |-> low]
    ELSE IF current_vehicles <= CLEARANCE_THRESHOLD
         THEN LET started == IF low = None THEN now ELSE low
              IN [switch |-> now - started >= CLEARANCE_WAIT_TIME,
                  low |-> started]
         ELSE [switch |-> FALSE, low |-> None]

\* should_switch_signal without the maximum-green test
should_switch_signal_no_ceiling(duration, current_vehicles, low, now) ==
    IF duration < MIN_GREEN_TIME THEN [switch |-> FALSE, low |-> low]
    ELSE IF current_vehicles <= CLEARANCE_THRESHOLD
         THEN LET started == IF low = None THEN now ELSE low
              IN [switch |-> now - started >= CLEARANCE_WAIT_TIME,
                  low |-> started]
         ELSE [switch |-> FALSE, low |-> None]

\* _should_switch_signal: the decision and the new low-traffic timer
should_switch_signal(duration, current_vehicles, low, now) ==
    IF duration < MIN_GREEN_TIME THEN [switch |-> FALSE, low |-> low]
    ELSE IF duration >= MAX_GREEN_TIME THEN [switch |-> TRUE, low |-> low]
    ELSE IF current_vehicles <= CLEARANCE_THRESHOLD
         THEN LET started == IF low = None THEN now ELSE low
              IN [switch |-> now - started >= CLEARANCE_WAIT_TIME,
                  low |-> started]
         ELSE [switch |-> FALSE, low |-> None]

\* _get_switch_reason
get_switch_reason(duration, low) ==
    IF duration >= MAX_GREEN_TIME THEN "Maximum time reached"
    ELSE IF low # None THEN "Early clearance - low traffic"
    ELSE "Standard switch"

\* next_index stepping by two
next_index_skip(i) == (i + 2) % Len(SIGNAL_SEQUENCE)

\* (self.current_side_index + 1) % len(self.signal_sequence)
next_index(i) == (i + 1) % Len(SIGNAL_SEQUENCE)

\* the loop of _switch_to_next_signal over signal_sequence
switch_states(new_side, previous_side) ==
    [side \in Sides |-> IF side = new_side THEN "GREEN"
                        ELSE IF side = previous_side THEN "YELLOW"
                        ELSE "RED"]

\* forced_states that sets the target GREEN and leaves the others as they are
forced_states_keep(target) == [signal_states EXCEPT ![target] = "GREEN"]

\* the loop of _handle_emergency and of manual_override
forced_states(target) ==
    [side \in Sides |-> IF side = target THEN "GREEN" ELSE "RED"]

----------------------------------------------------------------------------
(* What the last call returned: the fields of the dict update returns    *)
(* that say what was decided, and the bool of manual_override; with it    *)
(* the sides the call's snapshot flagged with an emergency and the side   *)
(* _check_emergency returned for it.                                      *)

Result(call, switched, emergency, reason, ok, flagged, detected) ==
    [call |-> call, switched |-> switched, emergency |-> emergency,
     reason |-> reason, ok |-> ok, flagged |-> flagged,
     detected |-> detected]

\* the sides whose entry carries a true emergency flag
Flagged(vehicle_counts) == {s \in Sides : HasEmergency(vehicle_counts[s])}

----------------------------------------------------------------------------
(* __init__ *)

TSCInit ==
    /\ clock = 0
    /\ current_side_index = 0
    /\ current_side = SIGNAL_SEQUENCE[1]
    /\ signal_states = [side \in Sides |->
                          IF side = SIGNAL_SEQUENCE[1] THEN "GREEN" ELSE "RED"]
    /\ low_traffic_start_time = None
    /\ green_start_time = 0
    /\ current_green_duration = 0
    /\ emergency_mode = FALSE
    /\ emergency_side = NoSide
    /\ total_cycles = 0
    /\ signal_change_history = <<>>
    /\ result = Result("init", FALSE, FALSE, "", TRUE, {}, NoSide)
    /\ low_since = None

----------------------------------------------------------------------------
(* Time passes between calls *)

Tick ==
    /\ clock + TimeStep <= MaxTime
    /\ clock' = clock + TimeStep
    /\ UNCHANGED <<tscVars, result, low_since, outsideTSC>>

----------------------------------------------------------------------------
(* update(vehicle_counts) *)

\* handle_emergency without the hold: the forced switch is made even when
\* the flagged side is the active one
handle_emergency_no_hold(side, flagged) ==
    /\ current_side' = side
    /\ current_side_index' = IndexOf(SIGNAL_SEQUENCE, side)
    /\ signal_states' = forced_states(side)
    /\ green_start_time' = clock
    /\ emergency_mode' = TRUE
    /\ result' = Result("update", TRUE, TRUE,
           "EMERGENCY VEHICLE DETECTED - Immediate switch", TRUE,
           flagged, side)
    /\ UNCHANGED <<low_traffic_start_time, emergency_side, total_cycles,
                   signal_change_history>>

\* _handle_emergency without line 262: current_side_index keeps the index
\* of the side that was interrupted
handle_emergency_keep_index(side, flagged) ==
    IF side = current_side
    THEN /\ result' = Result("update", FALSE, TRUE,
                "Emergency vehicle on active side - extending green", TRUE,
                flagged, side)
         /\ UNCHANGED <<current_side_index, current_side, signal_states,
                        low_traffic_start_time, green_start_time,
                        emergency_mode, emergency_side, total_cycles,
                        signal_change_history>>
    ELSE /\ current_side' = side
         /\ signal_states' = forced_states(side)
         /\ green_start_time' = clock
         /\ emergency_mode' = TRUE
         /\ result' = Result("update", TRUE, TRUE,
                "EMERGENCY VEHICLE DETECTED - Immediate switch", TRUE,
                flagged, side)
         /\ UNCHANGED <<current_side_index, low_traffic_start_time,
                        emergency_side, total_cycles,
                        signal_change_history>>

\* _handle_emergency, reached from update when a flag was found
handle_emergency(side, flagged) ==
    IF side = current_side
    THEN /\ result' = Result("update", FALSE, TRUE,
                "Emergency vehicle on active side - extending green", TRUE,
                flagged, side)
         /\ UNCHANGED <<current_side_index, current_side, signal_states,
                        low_traffic_start_time, green_start_time,
                        emergency_mode, emergency_side, total_cycles,
                        signal_change_history>>
    ELSE /\ current_side' = side
         /\ current_side_index' = IndexOf(SIGNAL_SEQUENCE, side)
         /\ signal_states' = forced_states(side)
         /\ green_start_time' = clock
         /\ emergency_mode' = TRUE
         /\ result' = Result("update", TRUE, TRUE,
                "EMERGENCY VEHICLE DETECTED - Immediate switch", TRUE,
                flagged, side)
         /\ UNCHANGED <<low_traffic_start_time, emergency_side, total_cycles,
                        signal_change_history>>

\* _switch_to_next_signal, reached from update when the decision is to switch
switch_to_next_signal(duration, low, flagged) ==
    LET previous_side == current_side
        reason == get_switch_reason(duration, low)
        new_index == next_index(current_side_index)
        new_side == SIGNAL_SEQUENCE[new_index + 1]
    IN  /\ current_side_index' = new_index
        /\ current_side' = new_side
        /\ signal_states' = switch_states(new_side, previous_side)
        /\ green_start_time' = clock
        /\ low_traffic_start_time' = None
        /\ total_cycles' = IF new_side = SIGNAL_SEQUENCE[1]
                           THEN total_cycles + 1 ELSE total_cycles
        /\ signal_change_history' = Append(signal_change_history,
               [time |-> clock, from_side |-> previous_side,
                to_side |-> new_side, duration |-> duration,
                reason |-> reason])
        /\ result' = Result("update", TRUE, FALSE, reason, TRUE, flagged,
                            NoSide)
        /\ UNCHANGED <<emergency_mode, emergency_side>>

\* the observation low_since after an update: a switch ends the run, an
\* update that sees an emergency leaves it as it is, a count above the
\* threshold ends it, a low count from MIN_GREEN_TIME on begins it
low_since_after(switched, detected, duration, n) ==
    IF switched THEN None
    ELSE IF detected # NoSide THEN low_since
    ELSE IF n > CLEARANCE_THRESHOLD THEN None
    ELSE IF duration >= MIN_GREEN_TIME /\ duration < MAX_GREEN_TIME
              /\ low_since = None
         THEN clock
    ELSE low_since

update(vehicle_counts, order) ==
    LET duration == clock - green_start_time
        current_vehicles == current_vehicles_of(vehicle_counts, current_side)
        emergency_detected == IF ENABLE_EMERGENCY_DETECTION
                              THEN check_emergency(vehicle_counts, order)
                              ELSE NoSide
        decision == should_switch_signal(duration, current_vehicles,
                                         low_traffic_start_time, clock)
    IN  /\ current_green_duration' = duration
        /\ IF emergency_detected # NoSide
           THEN handle_emergency(emergency_detected, Flagged(vehicle_counts))
           ELSE IF decision.switch
           THEN switch_to_next_signal(duration, decision.low,
                                      Flagged(vehicle_counts))
           ELSE /\ low_traffic_start_time' = decision.low
                /\ result' = Result("update", FALSE, FALSE,
                                    "Continuing current signal", TRUE,
                                    Flagged(vehicle_counts), NoSide)
                /\ UNCHANGED <<current_side_index, current_side,
                               signal_states, green_start_time,
                               emergency_mode, emergency_side, total_cycles,
                               signal_change_history>>
        /\ low_since' = low_since_after(result'.switched, emergency_detected,
                                        duration, current_vehicles)
        /\ UNCHANGED clock

Update ==
    /\ \E vehicle_counts \in Snapshots(current_side), order \in Orders :
          update(vehicle_counts, order)
    /\ UNCHANGED outsideTSC

----------------------------------------------------------------------------
(* manual_override(target_side) *)

\* manual_override without the membership test: for a side outside the
\* sequence the assignment of current_side is made before index() raises
manual_override_unchecked(target_side) ==
    IF target_side = current_side
    THEN /\ result' = Result("manual_override", FALSE, FALSE, "", TRUE, {},
                           NoSide)
         /\ UNCHANGED <<clock, tscVars, low_since>>
    ELSE IF ~InSequence(target_side)
    THEN /\ current_side' = target_side
         /\ result' = Result("manual_override", FALSE, FALSE, "", FALSE, {},
                           NoSide)
         /\ UNCHANGED <<clock, current_side_index, signal_states,
                        low_traffic_start_time, green_start_time,
                        current_green_duration, emergency_mode,
                        emergency_side, total_cycles, signal_change_history,
                        low_since>>
    ELSE /\ current_side' = target_side
         /\ current_side_index' = IndexOf(SIGNAL_SEQUENCE, target_side)
         /\ signal_states' = forced_states(target_side)
         /\ green_start_time' = clock
         /\ result' = Result("manual_override", TRUE, FALSE, "", TRUE, {},
                           NoSide)
         /\ low_since' = None
         /\ UNCHANGED <<clock, low_traffic_start_time, current_green_duration,
                        emergency_mode, emergency_side, total_cycles,
                        signal_change_history>>

manual_override(target_side) ==
    IF ~InSequence(target_side)
    THEN /\ result' = Result("manual_override", FALSE, FALSE, "", FALSE, {},
                           NoSide)
         /\ UNCHANGED <<clock, tscVars, low_since>>
    ELSE IF target_side = current_side
    THEN /\ result' = Result("manual_override", FALSE, FALSE, "", TRUE, {},
                           NoSide)
         /\ UNCHANGED <<clock, tscVars, low_since>>
    ELSE /\ current_side' = target_side
         /\ current_side_index' = IndexOf(SIGNAL_SEQUENCE, target_side)
         /\ signal_states' = forced_states(target_side)
         /\ green_start_time' = clock
         /\ result' = Result("manual_override", TRUE, FALSE, "", TRUE, {},
                           NoSide)
         /\ low_since' = None
         /\ UNCHANGED <<clock, low_traffic_start_time, current_green_duration,
                        emergency_mode, emergency_side, total_cycles,
                        signal_change_history>>

ManualOverride ==
    /\ \E target_side \in Sides \cup {UnknownSide} :
          manual_override(target_side)
    /\ UNCHANGED outsideTSC

----------------------------------------------------------------------------

----------------------------------------------------------------------------
(* The simulation (src/smart_traffic): config.py *)

GREEN_LIGHT_DURATION == 10

YELLOW_LIGHT_DURATION == 3

MAX_VEHICLES_PER_SIDE == 15

VEHICLE_SPEED == 3

VehicleTypes == {"CAR", "TRUCK", "BUS"}

----------------------------------------------------------------------------
(* SignalController (traffic_signal/signal_controller.py) *)

\* self.sides
SC_sides == <<"NORTH", "SOUTH", "EAST", "WEST">>

\* the cycle the class documents: North -> East -> South -> West -> repeat
DocumentedCycle == <<"NORTH", "EAST", "SOUTH", "WEST">>

\* __init__ at time now
SignalController_init(now) ==
    [current_side_index |-> 0,
     current_side |-> SC_sides[1],
     signals |-> [side \in Sides |->
                    IF side = SC_sides[1] THEN "GREEN" ELSE "RED"],
     last_change_time |-> now]

\* update without line 55: the side that was YELLOW is not set RED when
\* the next side turns GREEN
SignalController_update_no_red(sc, current_time, per_second) ==
    LET elapsed == current_time - sc.last_change_time
        current_state == sc.signals[sc.current_side]
        new_index == (sc.current_side_index + 1) % Len(SC_sides)
        new_side == SC_sides[new_index + 1]
    IN  IF /\ current_state = "GREEN"
               /\ elapsed >= GREEN_LIGHT_DURATION * per_second
        THEN [sc EXCEPT !.signals[sc.current_side] = "YELLOW",
                        !.last_change_time = current_time]
        ELSE IF /\ current_state = "YELLOW"
                /\ elapsed >= YELLOW_LIGHT_DURATION * per_second
        THEN [current_side_index |-> new_index,
              current_side |-> new_side,
              signals |-> [side \in Sides |->
                             IF side = new_side THEN "GREEN"
                             ELSE sc.signals[side]],
              last_change_time |-> current_time]
        ELSE sc

\* update whose GREEN -> YELLOW transition does not wait for the green
\* duration
SignalController_update_hasty(sc, current_time, per_second) ==
    LET elapsed == current_time - sc.last_change_time
        current_state == sc.signals[sc.current_side]
        new_index == (sc.current_side_index + 1) % Len(SC_sides)
        new_side == SC_sides[new_index + 1]
    IN  IF current_state = "GREEN"
        THEN [sc EXCEPT !.signals[sc.current_side] = "YELLOW",
                        !.last_change_time = current_time]
        ELSE IF /\ current_state = "YELLOW"
                /\ elapsed >= YELLOW_LIGHT_DURATION * per_second
        THEN [current_side_index |-> new_index,
              current_side |-> new_side,
              signals |-> [side \in Sides |->
                             IF side = new_side THEN "GREEN"
                             ELSE IF side = sc.current_side THEN "RED"
                             ELSE sc.signals[side]],
              last_change_time |-> current_time]
        ELSE sc

\* update called when time.time() returns current_time; the times are
\* counted in units of 1/per_second seconds
SignalController_update(sc, current_time, per_second) ==
    LET elapsed == current_time - sc.last_change_time
        current_state == sc.signals[sc.current_side]
        new_index == (sc.current_side_index + 1) % Len(SC_sides)
        new_side == SC_sides[new_index + 1]
    IN  IF /\ current_state = "GREEN"
               /\ elapsed >= GREEN_LIGHT_DURATION * per_second
        THEN [sc EXCEPT !.signals[sc.current_side] = "YELLOW",
                        !.last_change_time = current_time]
        ELSE IF /\ current_state = "YELLOW"
                /\ elapsed >= YELLOW_LIGHT_DURATION * per_second
        THEN [current_side_index |-> new_index,
              current_side |-> new_side,
              signals |-> [side \in Sides |->
                             IF side = new_side THEN "GREEN"
                             ELSE IF side = sc.current_side THEN "RED"
                             ELSE sc.signals[side]],
              last_change_time |-> current_time]
        ELSE sc

\* is_red(side)
is_red(sc, side) == sc.signals[side] = "RED"

----------------------------------------------------------------------------
(* Vehicle (traffic_simulation/vehicle.py) *)

\* Intersection.window_size; the display is taken to have this size, so
\* set_window_size never changes it
WINDOW_WIDTH == 1920

WINDOW_HEIGHT == 1080

center_x == WINDOW_WIDTH \div 2

center_y == WINDOW_HEIGHT \div 2

\* _calculate_initial_position: space between vehicles, offset of the lane
\* from the centre line, distance of queue position 0 from the centre
spacing == 60

lane_offset == 80

spawn_distance == 300

\* _at_intersection_center
threshold == 30

\* _check_if_crossed
crossing_distance == 400

\* _check_if_crossed_signal and should_stop
stop_distance == 150

\* should_stop: width of the zone before the stop line in which a red
\* signal stops a vehicle
approach_margin == 10

\* should_stop: minimum distance to maintain
min_distance == 50

\* Vehicle(side, position, vehicle_type) followed by
\* update_position_for_screen; vehicle_id stands for the unique license
\* plate and turn_direction is the constructor's random choice
Vehicle(side, position, vehicle_type, vehicle_id, turn_direction) ==
    [side |-> side,
     position |-> position,
     vehicle_type |-> vehicle_type,
     vehicle_id |-> vehicle_id,
     x |-> CASE side = "NORTH" -> center_x - lane_offset
             [] side = "SOUTH" -> center_x + lane_offset
             [] side = "EAST" -> center_x + spawn_distance + (position * spacing)
             [] side = "WEST" -> center_x - spawn_distance - (position * spacing),
     y |-> CASE side = "NORTH" -> center_y - spawn_distance - (position * spacing)
             [] side = "SOUTH" -> center_y + spawn_distance + (position * spacing)
             [] side = "EAST" -> center_y + lane_offset
             [] side = "WEST" -> center_y - lane_offset,
     crossed |-> FALSE,
     crossed_signal |-> FALSE,
     turn_direction |-> turn_direction,
     is_turning |-> FALSE,
     original_side |-> side]

Abs(n) == IF n < 0 THEN -n ELSE n

at_intersection_center(v) ==
    IF v.original_side \in {"NORTH", "SOUTH"}
    THEN Abs(v.y - center_y) < threshold
    ELSE Abs(v.x - center_x) < threshold

\* _execute_turn: the side after the turn
execute_turn(side, turn_direction) ==
    CASE turn_direction = 0 -> side
      [] turn_direction = 1 ->
            (CASE side = "NORTH" -> "WEST" [] side = "WEST" -> "SOUTH"
               [] side = "SOUTH" -> "EAST" [] side = "EAST" -> "NORTH")
      [] turn_direction = 2 ->
            (CASE side = "NORTH" -> "EAST" [] side = "EAST" -> "SOUTH"
               [] side = "SOUTH" -> "WEST" [] side = "WEST" -> "NORTH")

\* the condition of _check_if_crossed
check_if_crossed(v) ==
    \/ v.side = "NORTH" /\ v.y > center_y + crossing_distance
    \/ v.side = "SOUTH" /\ v.y < center_y - crossing_distance
    \/ v.side = "EAST" /\ v.x < center_x - crossing_distance
    \/ v.side = "WEST" /\ v.x > center_x + crossing_distance

\* the condition of _check_if_crossed_signal
check_if_crossed_signal(v) ==
    \/ v.original_side = "NORTH" /\ v.y > center_y - stop_distance
    \/ v.original_side = "SOUTH" /\ v.y < center_y + stop_distance
    \/ v.original_side = "EAST" /\ v.x < center_x + stop_distance
    \/ v.original_side = "WEST" /\ v.x > center_x - stop_distance

\* move without the is_turning test: the turn is made in every move that
\* begins within the centre threshold
move_turn_again(v) ==
    IF v.crossed THEN v
    ELSE LET turned == IF at_intersection_center(v)
                       THEN [v EXCEPT !.is_turning = TRUE,
                                      !.side = execute_turn(v.side,
                                                            v.turn_direction)]
                       ELSE v
             moved == CASE turned.side = "NORTH" ->
                             [turned EXCEPT !.y = turned.y + VEHICLE_SPEED]
                        [] turned.side = "SOUTH" ->
                             [turned EXCEPT !.y = turned.y - VEHICLE_SPEED]
                        [] turned.side = "EAST" ->
                             [turned EXCEPT !.x = turned.x - VEHICLE_SPEED]
                        [] turned.side = "WEST" ->
                             [turned EXCEPT !.x = turned.x + VEHICLE_SPEED]
         IN [moved EXCEPT
                !.crossed = check_if_crossed(moved),
                !.crossed_signal = moved.crossed_signal
                                      \/ check_if_crossed_signal(moved)]

move(v) ==
    IF v.crossed THEN v
    ELSE LET turned == IF ~v.is_turning /\ at_intersection_center(v)
                       THEN [v EXCEPT !.is_turning = TRUE,
                                      !.side = execute_turn(v.side,
                                                            v.turn_direction)]
                       ELSE v
             moved == CASE turned.side = "NORTH" ->
                             [turned EXCEPT !.y = turned.y + VEHICLE_SPEED]
                        [] turned.side = "SOUTH" ->
                             [turned EXCEPT !.y = turned.y - VEHICLE_SPEED]
                        [] turned.side = "EAST" ->
                             [turned EXCEPT !.x = turned.x - VEHICLE_SPEED]
                        [] turned.side = "WEST" ->
                             [turned EXCEPT !.x = turned.x + VEHICLE_SPEED]
         IN [moved EXCEPT
                !.crossed = check_if_crossed(moved),
                !.crossed_signal = moved.crossed_signal
                                      \/ check_if_crossed_signal(moved)]

\* _calculate_distance_to
calculate_distance_to(v, other_vehicle) ==
    CASE v.original_side = "NORTH" -> other_vehicle.y - v.y
      [] v.original_side = "SOUTH" -> v.y - other_vehicle.y
      [] v.original_side = "EAST" -> v.x - other_vehicle.x
      [] v.original_side = "WEST" -> other_vehicle.x - v.x

\* approaching_stop_line that holds only at the first point of the zone
approaching_stop_line_exact(v) ==
    \/ v.original_side = "NORTH"
          /\ v.y = center_y - stop_distance - approach_margin
    \/ v.original_side = "SOUTH"
          /\ v.y = center_y + stop_distance + approach_margin
    \/ v.original_side = "EAST"
          /\ v.x = center_x + stop_distance + approach_margin
    \/ v.original_side = "WEST"
          /\ v.x = center_x - stop_distance - approach_margin

\* the last test of should_stop: the vehicle is in the zone before the
\* stop line or beyond it
approaching_stop_line(v) ==
    \/ v.original_side = "NORTH"
          /\ v.y >= center_y - stop_distance - approach_margin
    \/ v.original_side = "SOUTH"
          /\ v.y <= center_y + stop_distance + approach_margin
    \/ v.original_side = "EAST"
          /\ v.x <= center_x + stop_distance + approach_margin
    \/ v.original_side = "WEST"
          /\ v.x >= center_x - stop_distance - approach_margin

\* should_stop without the first test: a vehicle past the stop line is
\* handled as one before it
should_stop_uncommitted(v, signal_is_red, vehicles_ahead) ==
    IF \E i \in 1..Len(vehicles_ahead) :
          calculate_distance_to(v, vehicles_ahead[i]) < min_distance
    THEN TRUE
    ELSE IF ~signal_is_red THEN FALSE
    ELSE approaching_stop_line(v)

\* should_stop with the signal test moved before the test of the vehicles
\* ahead (a green signal lets the vehicle go whatever is ahead)
should_stop_signal_first(v, signal_is_red, vehicles_ahead) ==
    IF v.crossed_signal THEN FALSE
    ELSE IF ~signal_is_red THEN FALSE
    ELSE \/ \E i \in 1..Len(vehicles_ahead) :
              calculate_distance_to(v, vehicles_ahead[i]) < min_distance
         \/ approaching_stop_line(v)

should_stop(v, signal_is_red, vehicles_ahead) ==
    IF v.crossed_signal THEN FALSE
    ELSE IF \E i \in 1..Len(vehicles_ahead) :
               calculate_distance_to(v, vehicles_ahead[i]) < min_distance
    THEN TRUE
    ELSE IF ~signal_is_red THEN FALSE
    ELSE approaching_stop_line(v)

----------------------------------------------------------------------------
(* TrafficGenerator and Intersection (traffic_simulation) *)

\* frames the main loop makes in a second (display.draw waits for the
\* frame time to pass); the simulation's clock counts frames
FramesPerSecond == 4

\* the main loop is followed for MaxFrame frames
MaxFrame == 262

\* vehicles of one run whose turn_direction is not 0
MaxTurning == 1

\* values of frame_count at which should_generate_vehicle may return True
\* (the first two frames, then the frame in which, on SOUTH, the first of
\* two vehicles leaves and the frame after the second has left); in every
\* other frame it returns False
SpawnFrames == {0, 1, 237, 255}

\* the sides for which it may return True, one side in each run
SpawnSides == Sides

\* the random draws of one generate_vehicle call
NoDraw == [spawn |-> FALSE, vehicle_type |-> "CAR", turn_direction |-> 0]

Draws(side) ==
    {NoDraw} \cup
    IF side = traffic_generator.lane /\ frame_count \in SpawnFrames
    THEN {[spawn |-> TRUE, vehicle_type |-> t, turn_direction |-> d] :
             t \in VehicleTypes,
             d \in IF traffic_generator.turning < MaxTurning
                   THEN {0, 1, 2} ELSE {0}}
    ELSE {}

\* generate_vehicle with > for >= in the capacity test
generate_vehicle_over(side, current_vehicle_count, draw, vehicle_id) ==
    IF current_vehicle_count > MAX_VEHICLES_PER_SIDE THEN <<>>
    ELSE IF ~draw.spawn THEN <<>>
    ELSE <<Vehicle(side, current_vehicle_count, draw.vehicle_type,
                   vehicle_id, draw.turn_direction)>>

\* generate_vehicle: no vehicle (the empty list) or one vehicle
generate_vehicle(side, current_vehicle_count, draw, vehicle_id) ==
    IF current_vehicle_count >= MAX_VEHICLES_PER_SIDE THEN <<>>
    ELSE IF ~draw.spawn THEN <<>>
    ELSE <<Vehicle(side, current_vehicle_count, draw.vehicle_type,
                   vehicle_id, draw.turn_direction)>>

\* Intersection.__init__
Intersection_init ==
    [vehicles |-> [side \in Sides |-> <<>>],
     total_vehicles_crossed |-> 0,
     vehicles_crossed_by_type |-> [t \in VehicleTypes |-> 0]]

\* the first loop of update
spawn_vehicles(vehicles, draws, vehicle_id) ==
    [side \in Sides |->
        vehicles[side] \o generate_vehicle(side, Len(vehicles[side]),
                                           draws[side], vehicle_id)]

\* the inner loop with every other vehicle of the list taken as a vehicle
\* ahead, those behind in the list included
RECURSIVE move_vehicles_all_others(_, _, _)
move_vehicles_all_others(done, rest, signal_is_red) ==
    IF rest = <<>> THEN done
    ELSE LET vehicle == Head(rest)
             vehicles_ahead == done \o Tail(rest)
         IN move_vehicles_all_others(
                Append(done, IF should_stop(vehicle, signal_is_red,
                                            vehicles_ahead)
                             THEN vehicle ELSE move(vehicle)),
                Tail(rest), signal_is_red)

\* the inner loop of update over one side's list, front to back: `done`
\* holds the vehicles already handled in this update
RECURSIVE move_vehicles(_, _, _)
move_vehicles(done, rest, signal_is_red) ==
    IF rest = <<>> THEN done
    ELSE LET vehicle == Head(rest)
             vehicles_ahead == done
         IN move_vehicles(
                Append(done, IF should_stop(vehicle, signal_is_red,
                                            vehicles_ahead)
                             THEN vehicle ELSE move(vehicle)),
                Tail(rest), signal_is_red)

\* number of crossed vehicles of the given types in all the lists
crossed_count(vehicles, types) ==
    Cardinality({p \in UNION {{<<side, i>> : i \in 1..Len(vehicles[side])} :
                                 side \in Sides} :
                    /\ vehicles[p[1]][p[2]].crossed
                    /\ vehicles[p[1]][p[2]].vehicle_type \in types})

\* _remove_crossed_vehicles without the update of the statistics by type
remove_crossed_vehicles_untyped(ix) ==
    [vehicles |-> [side \in Sides |->
                     SelectSeq(ix.vehicles[side], LAMBDA v : ~v.crossed)],
     total_vehicles_crossed |->
         ix.total_vehicles_crossed + crossed_count(ix.vehicles, VehicleTypes),
     vehicles_crossed_by_type |-> ix.vehicles_crossed_by_type]

\* _remove_crossed_vehicles that counts a crossed vehicle only when it is
\* still on the side of its queue (a vehicle that turned is removed
\* uncounted)
remove_crossed_vehicles_unturned(ix) ==
    LET straight == [side \in Sides |->
                       SelectSeq(ix.vehicles[side],
                                 LAMBDA v : v.side = v.original_side)]
    IN  [vehicles |-> [side \in Sides |->
                         SelectSeq(ix.vehicles[side], LAMBDA v : ~v.crossed)],
         total_vehicles_crossed |->
             ix.total_vehicles_crossed + crossed_count(straight, VehicleTypes),
         vehicles_crossed_by_type |->
             [t \in VehicleTypes |->
                 ix.vehicles_crossed_by_type[t] + crossed_count(straight, {t})]]

\* _remove_crossed_vehicles
remove_crossed_vehicles(ix) ==
    [vehicles |-> [side \in Sides |->
                     SelectSeq(ix.vehicles[side], LAMBDA v : ~v.crossed)],
     total_vehicles_crossed |->
         ix.total_vehicles_crossed + crossed_count(ix.vehicles, VehicleTypes),
     vehicles_crossed_by_type |->
         [t \in VehicleTypes |->
             ix.vehicles_crossed_by_type[t] + crossed_count(ix.vehicles, {t})]]

\* Intersection.update once signal_controller.update() has returned sc
Intersection_update(ix, sc, draws, vehicle_id) ==
    LET spawned == spawn_vehicles(ix.vehicles, draws, vehicle_id)
        moved == [side \in Sides |->
                    move_vehicles(<<>>, spawned[side], is_red(sc, side))]
    IN remove_crossed_vehicles([ix EXCEPT !.vehicles = moved])

\* no simulation runs
SimIdle ==
    /\ signal_controller = SignalController_init(0)
    /\ intersection = Intersection_init
    /\ traffic_generator = [lane |-> NoSide, spawned |-> 0, turning |-> 0]
    /\ frame_count = 0

\* the processing thread between two calls of update
NotInCall ==
    [pc |-> "idle", i |-> 0, side |-> NoSide, previous_side |-> NoSide,
     reason |-> "", flagged |-> {}]

\* the GUI thread before its first refresh
NotRefreshed ==
    [pc |-> "start", signal_states |-> [side \in Sides |-> "RED"],
     current_side |-> NoSide]

\* SmartTrafficSystem after start(): both running flags are set, no frame
\* is stored yet and no capture is released
NotStopped ==
    [running |-> TRUE, video_running |-> TRUE, has_frame |-> FALSE,
     released |-> FALSE]

\* stop() is not called and the loops are not followed
NoThreads == [stop |-> "not_called", processing |-> "idle", capture |-> "idle"]

\* no thread runs
LiveIdle ==
    /\ processing = NotInCall
    /\ gui = NotRefreshed
    /\ system = NotStopped
    /\ threads = NoThreads

\* nothing but the controller exists
OutsideIdle ==
    /\ args = <<>>
    /\ ret = None
    /\ SimIdle
    /\ LiveIdle

Init == TSCInit /\ OutsideIdle

Next == Tick \/ Update \/ ManualOverride

Spec == Init /\ [][Next]_vars

----------------------------------------------------------------------------
(* utils.calculate_green_time, called on its own *)

\* the defaults of min_time and max_time
DEFAULT_MIN_TIME == 5

DEFAULT_MAX_TIME == 60

\* largest vehicle_count tried
MaxVehicleCount == 30

\* largest min_time and max_time tried beside the defaults
MaxTimeArg == 6

Min(a, b) == IF a <= b THEN a ELSE b

\* calculate_green_time without the cap
calculate_green_time_uncapped(vehicle_count, min_time, max_time) ==
    IF vehicle_count = 0 THEN min_time
    ELSE min_time + (vehicle_count * 2)

calculate_green_time(vehicle_count, min_time, max_time) ==
    IF vehicle_count = 0 THEN min_time
    ELSE LET calculated_time == min_time + (vehicle_count * 2)
         IN Min(calculated_time, max_time)

\* the argument lists tried: the defaults and every pair of small times,
\* min_time above max_time included
GreenTimeArgs ==
    {[vehicle_count |-> c, min_time |-> a, max_time |-> b] :
        c \in 0..MaxVehicleCount,
        a \in (0..MaxTimeArg) \cup {DEFAULT_MIN_TIME},
        b \in (0..MaxTimeArg) \cup {DEFAULT_MAX_TIME}}

InitGreenTime ==
    /\ TSCInit
    /\ SimIdle
    /\ LiveIdle
    /\ args \in GreenTimeArgs
    /\ ret = None

CalculateGreenTime ==
    /\ ret = None
    /\ ret' = calculate_green_time(args.vehicle_count, args.min_time,
                                   args.max_time)
    /\ UNCHANGED <<clock, tscVars, result, low_since, args, simVars, liveVars>>

SpecGreenTime == InitGreenTime /\ [][CalculateGreenTime]_vars

----------------------------------------------------------------------------
(* TrafficSignalController() under a timing configuration: the values of  *)
(* config.py that __init__ copies into the object.                        *)

YELLOW_TIME == 5

ALL_RED_TIME == 2

\* the values tried for a duration whose configured value is d
DurationsTried(d) == {-1, 0, d}

Timings ==
    {[max_green_time |-> a, min_green_time |-> b, yellow_time |-> c,
      all_red_time |-> d, clearance_wait_time |-> e] :
        a \in DurationsTried(MAX_GREEN_TIME),
        b \in DurationsTried(MIN_GREEN_TIME) \cup {MAX_GREEN_TIME + 1},
        c \in DurationsTried(YELLOW_TIME),
        d \in DurationsTried(ALL_RED_TIME),
        e \in DurationsTried(CLEARANCE_WAIT_TIME)}

\* __init__ copies the values and makes no test of them: it returns for
\* every configuration
construct(timing) == "constructed"

InitConstruct ==
    /\ TSCInit
    /\ SimIdle
    /\ LiveIdle
    /\ args \in Timings
    /\ ret = "pending"

\* controller = TrafficSignalController()
Construct ==
    /\ ret = "pending"
    /\ ret' = construct(args)
    /\ UNCHANGED <<clock, tscVars, result, low_since, args, simVars, liveVars>>

\* the first update of a constructed controller: update makes no test of
\* the timing values either
FirstUpdate ==
    /\ ret = "constructed"
    /\ ret' = "running"
    /\ UNCHANGED <<clock, tscVars, result, low_since, args, simVars, liveVars>>

NextConstruct == Construct \/ FirstUpdate

SpecConstruct == InitConstruct /\ [][NextConstruct]_vars

----------------------------------------------------------------------------
(* The SignalController on its own: update is called at any whole second *)

\* the clock of the signal run stops here
MaxSignalTime == 60

InitSignal == TSCInit /\ OutsideIdle

SignalTick ==
    /\ clock < MaxSignalTime
    /\ clock' = clock + 1
    /\ UNCHANGED <<tscVars, result, low_since, outsideTSC>>

SignalUpdate ==
    /\ signal_controller' = SignalController_update(signal_controller, clock, 1)
    /\ UNCHANGED <<clock, tscVars, result, low_since, args, ret,
                   intersection, traffic_generator, frame_count, liveVars>>

NextSignal == SignalTick \/ SignalUpdate

SpecSignal == InitSignal /\ [][NextSignal]_vars

----------------------------------------------------------------------------
(* The simulation's main loop: one frame is one call of Intersection.update *)

InitSim ==
    /\ TSCInit
    /\ args = <<>>
    /\ ret = None
    /\ signal_controller = SignalController_init(0)
    /\ intersection = Intersection_init
    /\ traffic_generator \in {[lane |-> side, spawned |-> 0, turning |-> 0] :
                                 side \in SpawnSides}
    /\ frame_count = 0
    /\ LiveIdle

\* one pass of the main loop in which generate_vehicle draws `draw` for
\* the lane
FrameStep(draw) ==
    LET now == clock + 1
        sc == SignalController_update(signal_controller, now,
                                      FramesPerSecond)
        draws == [side \in Sides |->
                    IF side = traffic_generator.lane THEN draw
                    ELSE NoDraw]
        made == generate_vehicle(traffic_generator.lane,
                    Len(intersection.vehicles[traffic_generator.lane]),
                    draw, traffic_generator.spawned + 1)
    IN  /\ clock' = now
        /\ signal_controller' = sc
        /\ intersection' = Intersection_update(intersection, sc, draws,
                                traffic_generator.spawned + 1)
        /\ traffic_generator' =
              [traffic_generator EXCEPT
                  !.spawned = @ + Len(made),
                  !.turning = @ + (IF made # <<>>
                                      /\ draw.turn_direction # 0
                                   THEN 1 ELSE 0)]
        /\ frame_count' = frame_count + 1
        /\ UNCHANGED <<tscVars, result, low_since, args, ret, liveVars>>

Frame ==
    /\ frame_count < MaxFrame
    /\ \E draw \in Draws(traffic_generator.lane) : FrameStep(draw)

SpecSim == InitSim /\ [][Frame]_vars

----------------------------------------------------------------------------
(* The main loop while a side fills up: should_generate_vehicle returns   *)
(* True in every frame but a few, so the lane reaches its capacity.       *)

\* the loop is followed for MaxFillFrame frames
MaxFillFrame == 18

\* frames of one run in which should_generate_vehicle returns False
MaxSkipped == 2

FillDraws ==
    {[spawn |-> TRUE, vehicle_type |-> "CAR", turn_direction |-> 0]} \cup
    IF frame_count - traffic_generator.spawned < MaxSkipped
    THEN {NoDraw} ELSE {}

FillFrame ==
    /\ frame_count < MaxFillFrame
    /\ \E draw \in FillDraws : FrameStep(draw)

SpecFill == InitSim /\ [][FillFrame]_vars

----------------------------------------------------------------------------
(* The live mode (src/smart_traffic_system/main.py): the processing       *)
(* thread calls update while the GUI thread, rescheduled by root.after,   *)
(* reads the controller; no lock is held by either, so the threads may    *)
(* interleave between any two statements.  A call of update that switches *)
(* is followed statement by statement; the part of a call that only       *)
(* reads is one step with the call's first write.                         *)

\* the clock of the live run stops here
MaxLiveTime == 15

\* time passes while the processing thread sleeps between two calls
LiveTick ==
    /\ processing.pc = "idle"
    /\ clock + TimeStep <= MaxLiveTime
    /\ clock' = clock + TimeStep
    /\ UNCHANGED <<tscVars, result, low_since, outsideTSC>>

\* the call's decision switches the active side
Switches(vehicle_counts, order) ==
    LET detected == check_emergency(vehicle_counts, order)
        decision == should_switch_signal(
                        clock - green_start_time,
                        current_vehicles_of(vehicle_counts, current_side),
                        low_traffic_start_time, clock)
    IN IF detected # NoSide THEN detected # current_side ELSE decision.switch

\* a call of update that does not switch: it writes nothing the GUI reads
LiveUpdate ==
    /\ processing.pc = "idle"
    /\ \E vehicle_counts \in Snapshots(current_side), order \in Orders :
          /\ ~Switches(vehicle_counts, order)
          /\ update(vehicle_counts, order)
    /\ UNCHANGED outsideTSC

\* update finds an emergency on another side and enters _handle_emergency:
\* previous_side is kept, current_side and current_side_index are assigned
EmergencyEnter ==
    /\ processing.pc = "idle"
    /\ \E vehicle_counts \in Snapshots(current_side), order \in Orders :
          LET detected == check_emergency(vehicle_counts, order)
          IN  /\ detected # NoSide
              /\ detected # current_side
              /\ current_green_duration' = clock - green_start_time
              /\ current_side' = detected
              /\ current_side_index' = IndexOf(SIGNAL_SEQUENCE, detected)
              /\ processing' = [pc |-> "emergency_loop", i |-> 1,
                                side |-> detected,
                                previous_side |-> current_side,
                                reason |-> "",
                                flagged |-> Flagged(vehicle_counts)]
    /\ UNCHANGED <<clock, signal_states, low_traffic_start_time,
                   green_start_time, emergency_mode, emergency_side,
                   total_cycles, signal_change_history, result, low_since,
                   args, ret, simVars, gui, system,
                   threads>>

\* one pass of the loop of _handle_emergency over signal_sequence
EmergencyLoop ==
    /\ processing.pc = "emergency_loop"
    /\ LET side == SIGNAL_SEQUENCE[processing.i]
       IN signal_states' =
             [signal_states EXCEPT
                 ![side] = IF side = processing.side THEN "GREEN" ELSE "RED"]
    /\ processing' =
          IF processing.i < Len(SIGNAL_SEQUENCE)
          THEN [processing EXCEPT !.i = @ + 1]
          ELSE [processing EXCEPT !.pc = "emergency_exit", !.i = 0]
    /\ UNCHANGED <<clock, current_side_index, current_side,
                   low_traffic_start_time, green_start_time,
                   current_green_duration, emergency_mode, emergency_side,
                   total_cycles, signal_change_history, result, low_since,
                   args, ret, simVars, gui, system,
                   threads>>

\* the end of _handle_emergency and the return of update
EmergencyExit ==
    /\ processing.pc = "emergency_exit"
    /\ green_start_time' = clock
    /\ emergency_mode' = TRUE
    /\ result' = Result("update", TRUE, TRUE,
           "EMERGENCY VEHICLE DETECTED - Immediate switch", TRUE,
           processing.flagged, processing.side)
    /\ low_since' = None
    /\ processing' = NotInCall
    /\ UNCHANGED <<clock, current_side_index, current_side, signal_states,
                   low_traffic_start_time, current_green_duration,
                   emergency_side, total_cycles, signal_change_history,
                   args, ret, simVars, gui, system,
                   threads>>

\* update decides to switch and enters _switch_to_next_signal:
\* previous_side is kept and the active side is set YELLOW
SwitchEnter ==
    /\ processing.pc = "idle"
    /\ \E vehicle_counts \in Snapshots(current_side), order \in Orders :
          LET duration == clock - green_start_time
              decision == should_switch_signal(
                              duration,
                              current_vehicles_of(vehicle_counts, current_side),
                              low_traffic_start_time, clock)
          IN  /\ check_emergency(vehicle_counts, order) = NoSide
              /\ decision.switch
              /\ current_green_duration' = duration
              /\ low_traffic_start_time' = decision.low
              /\ signal_states' = [signal_states EXCEPT
                                      ![current_side] = "YELLOW"]
              /\ processing' = [pc |-> "switch_advance", i |-> 0,
                                side |-> NoSide,
                                previous_side |-> current_side,
                                reason |-> get_switch_reason(duration,
                                                             decision.low),
                                flagged |-> Flagged(vehicle_counts)]
    /\ UNCHANGED <<clock, current_side_index, current_side,
                   green_start_time, emergency_mode, emergency_side,
                   total_cycles, signal_change_history, result, low_since,
                   args, ret, simVars, gui, system,
                   threads>>

\* _switch_to_next_signal moves to the next side of the sequence
SwitchAdvance ==
    /\ processing.pc = "switch_advance"
    /\ current_side_index' = next_index(current_side_index)
    /\ current_side' = SIGNAL_SEQUENCE[next_index(current_side_index) + 1]
    /\ processing' = [processing EXCEPT !.pc = "switch_loop", !.i = 1]
    /\ UNCHANGED <<clock, signal_states, low_traffic_start_time,
                   green_start_time, current_green_duration, emergency_mode,
                   emergency_side, total_cycles, signal_change_history,
                   result, low_since, args, ret, simVars, gui, system,
                   threads>>

\* one pass of the loop of _switch_to_next_signal over signal_sequence
SwitchLoop ==
    /\ processing.pc = "switch_loop"
    /\ LET side == SIGNAL_SEQUENCE[processing.i]
       IN signal_states' =
             [signal_states EXCEPT
                 ![side] = IF side = current_side THEN "GREEN"
                           ELSE IF side = processing.previous_side
                                THEN "YELLOW"
                           ELSE "RED"]
    /\ processing' =
          IF processing.i < Len(SIGNAL_SEQUENCE)
          THEN [processing EXCEPT !.i = @ + 1]
          ELSE [processing EXCEPT !.pc = "switch_exit", !.i = 0]
    /\ UNCHANGED <<clock, current_side_index, current_side,
                   low_traffic_start_time, green_start_time,
                   current_green_duration, emergency_mode, emergency_side,
                   total_cycles, signal_change_history, result, low_since,
                   args, ret, simVars, gui, system,
                   threads>>

\* the end of _switch_to_next_signal and the return of update
SwitchExit ==
    /\ processing.pc = "switch_exit"
    /\ green_start_time' = clock
    /\ low_traffic_start_time' = None
    /\ total_cycles' = IF current_side = SIGNAL_SEQUENCE[1]
                       THEN total_cycles + 1 ELSE total_cycles
    /\ signal_change_history' = Append(signal_change_history,
           [time |-> clock, from_side |-> processing.previous_side,
            to_side |-> current_side, duration |-> current_green_duration,
            reason |-> processing.reason])
    /\ result' = Result("update", TRUE, FALSE, processing.reason, TRUE,
                        processing.flagged, NoSide)
    /\ low_since' = None
    /\ processing' = NotInCall
    /\ UNCHANGED <<clock, current_side_index, current_side, signal_states,
                   current_green_duration, emergency_mode, emergency_side,
                   args, ret, simVars, gui, system,
                   threads>>

\* _gui_update_loop reads get_signal_states(): a copy of the dict
GuiGetSignalStates ==
    /\ gui.pc \in {"start", "refreshed"}
    /\ gui' = [pc |-> "got_signal_states", signal_states |-> signal_states,
               current_side |-> NoSide]
    /\ UNCHANGED <<clock, tscVars, result, low_since, args, ret, simVars,
                   processing, system, threads>>

\* then it reads get_current_side(); with both read the refresh draws the
\* four sides
GuiGetCurrentSide ==
    /\ gui.pc = "got_signal_states"
    /\ gui' = [gui EXCEPT !.pc = "refreshed", !.current_side = current_side]
    /\ UNCHANGED <<clock, tscVars, result, low_since, args, ret, simVars,
                   processing, system, threads>>

NextLive ==
    \/ LiveTick \/ LiveUpdate
    \/ EmergencyEnter \/ EmergencyLoop \/ EmergencyExit
    \/ SwitchEnter \/ SwitchAdvance \/ SwitchLoop \/ SwitchExit
    \/ GuiGetSignalStates \/ GuiGetCurrentSide

SpecLive == Init /\ [][NextLive]_vars

----------------------------------------------------------------------------
(* Stopping the live mode: stop() of main.py, called by the GUI thread    *)
(* when the window is closed, while the processing thread runs            *)
(* _processing_loop and a capture thread runs _capture_loop.  No lock is  *)
(* held and stop() joins the capture threads only, with a timeout, so the *)
(* threads may interleave between any two of the steps below.             *)

\* the clock of the run that is stopped ends here
MaxStopTime == 10

\* start() has returned: the flags are set and the loops are at their test
InitStop ==
    /\ TSCInit
    /\ args = <<>>
    /\ ret = None
    /\ SimIdle
    /\ processing = NotInCall
    /\ gui = NotRefreshed
    /\ system = NotStopped
    /\ threads = [stop |-> "not_called", processing |-> "test_running",
                  capture |-> "test_running"]

\* _processing_loop: while self.running
ProcTestRunning ==
    /\ threads.processing = "test_running"
    /\ threads' = [threads EXCEPT
                      !.processing = IF system.running THEN "detect"
                                     ELSE "exited"]
    /\ UNCHANGED <<clock, tscVars, result, low_since, args, ret, simVars,
                   processing, gui, system>>

\* the tick reads the frames: with none stored it sleeps and goes back to
\* the test, otherwise it runs the detector on each of them
ProcDetect ==
    /\ threads.processing = "detect"
    /\ threads' = [threads EXCEPT
                      !.processing = IF system.has_frame THEN "update"
                                     ELSE "test_running"]
    /\ UNCHANGED <<clock, tscVars, result, low_since, args, ret, simVars,
                   processing, gui, system>>

\* control_result = self.traffic_controller.update(vehicle_count_dict)
ProcUpdate ==
    /\ threads.processing = "update"
    /\ \E vehicle_counts \in Snapshots(current_side), order \in Orders :
          update(vehicle_counts, order)
    /\ threads' = [threads EXCEPT !.processing = "sleep"]
    /\ UNCHANGED <<args, ret, simVars, processing, gui, system>>

\* the tick ends with time.sleep; time passes
ProcSleep ==
    /\ threads.processing = "sleep"
    /\ clock' = IF clock + TimeStep <= MaxStopTime THEN clock + TimeStep
                ELSE clock
    /\ threads' = [threads EXCEPT !.processing = "test_running"]
    /\ UNCHANGED <<tscVars, result, low_since, args, ret, simVars,
                   processing, gui, system>>

\* _capture_loop: while self.running
CapTestRunning ==
    /\ threads.capture = "test_running"
    /\ threads' = [threads EXCEPT
                      !.capture = IF system.video_running THEN "read"
                                  ELSE "exited"]
    /\ UNCHANGED <<clock, tscVars, result, low_since, args, ret, simVars,
                   processing, gui, system>>

\* ret, frame = cap.read() and the rest of the pass: the frame is stored
\* in current_frames unless the read failed or the frame is skipped
CapRead ==
    /\ threads.capture = "read"
    /\ \E stored \in BOOLEAN :
          system' = [system EXCEPT !.has_frame = @ \/ stored]
    /\ threads' = [threads EXCEPT !.capture = "test_running"]
    /\ UNCHANGED <<clock, tscVars, result, low_since, args, ret, simVars,
                   processing, gui>>

\* stop(): self.running = False
StopRequest ==
    /\ threads.stop = "not_called"
    /\ system' = [system EXCEPT !.running = FALSE]
    /\ threads' = [threads EXCEPT !.stop = "video_stop"]
    /\ UNCHANGED <<clock, tscVars, result, low_since, args, ret, simVars,
                   processing, gui>>

\* VideoManager.stop(): self.running = False
VideoStop ==
    /\ threads.stop = "video_stop"
    /\ system' = [system EXCEPT !.video_running = FALSE]
    /\ threads' = [threads EXCEPT !.stop = "join"]
    /\ UNCHANGED <<clock, tscVars, result, low_since, args, ret, simVars,
                   processing, gui>>

\* thread.join(timeout=2.0) returns when the capture thread has ended or
\* when the timeout has passed, whichever comes first
Join ==
    /\ threads.stop = "join"
    /\ threads' = [threads EXCEPT !.stop = "release"]
    /\ UNCHANGED <<clock, tscVars, result, low_since, args, ret, simVars,
                   processing, gui, system>>

\* cap.release()
Release ==
    /\ threads.stop = "release"
    /\ system' = [system EXCEPT !.released = TRUE]
    /\ threads' = [threads EXCEPT !.stop = "log"]
    /\ UNCHANGED <<clock, tscVars, result, low_since, args, ret, simVars,
                   processing, gui>>

\* the log, the statistics and the return of stop()
StopReturn ==
    /\ threads.stop = "log"
    /\ threads' = [threads EXCEPT !.stop = "returned"]
    /\ UNCHANGED <<clock, tscVars, result, low_since, args, ret, simVars,
                   processing, gui, system>>

\* the window is destroyed, run() and main() return and the interpreter
\* exits: the daemon threads end wherever they are
Exit ==
    /\ threads.stop = "returned"
    /\ threads' = [stop |-> "exited",
                   processing |-> IF threads.processing = "exited"
                                  THEN "exited" ELSE "killed",
                   capture |-> IF threads.capture = "exited"
                               THEN "exited" ELSE "killed"]
    /\ UNCHANGED <<clock, tscVars, result, low_since, args, ret, simVars,
                   processing, gui, system>>

NextStop ==
    \/ ProcTestRunning \/ ProcDetect \/ ProcUpdate \/ ProcSleep
    \/ CapTestRunning \/ CapRead
    \/ StopRequest \/ VideoStop \/ Join \/ Release \/ StopReturn \/ Exit

SpecStop == InitStop /\ [][NextStop]_vars

----------------------------------------------------------------------------
(* The controller run without end: update is called at every instant the  *)
(* clock shows, no snapshot carries an emergency flag and manual_override *)
(* is never called.  update reads only differences of times, so every     *)
(* time is counted from the start of the present green; the history and   *)
(* total_cycles, which update writes and never reads, are kept to the     *)
(* last event and to MaxCycles.                                           *)

\* total_cycles is followed up to this count
MaxCycles == 2

\* a time t counted from the start of the present green
SinceGreen(t) == IF t = None THEN None ELSE t - green_start_time

\* the snapshots without an emergency flag
CalmSnapshots(cur) == {vc \in Snapshots(cur) : Flagged(vc) = {}}

\* the processing loop sleeps: time passes, and it does not pass the
\* maximum green before the next update is made
FairTick ==
    /\ clock - green_start_time < MAX_GREEN_TIME
    /\ clock' = SinceGreen(clock) + TimeStep
    /\ green_start_time' = 0
    /\ low_traffic_start_time' = SinceGreen(low_traffic_start_time)
    /\ low_since' = SinceGreen(low_since)
    /\ total_cycles' = Min(total_cycles, MaxCycles)
    /\ signal_change_history' =
          IF signal_change_history = <<>> THEN <<>>
          ELSE <<signal_change_history[Len(signal_change_history)]>>
    /\ UNCHANGED <<current_side_index, current_side, signal_states,
                   current_green_duration, emergency_mode, emergency_side,
                   result, outsideTSC>>

FairUpdate ==
    /\ \E vehicle_counts \in CalmSnapshots(current_side), order \in Orders :
          update(vehicle_counts, order)
    /\ UNCHANGED outsideTSC

NextFair == FairTick \/ FairUpdate

SpecFair ==
    /\ Init
    /\ [][NextFair]_vars
    /\ WF_vars(FairTick)
    /\ WF_vars(FairUpdate)

----------------------------------------------------------------------------
(* SmartTrafficSignal (src/frontened/engine.py): calculate_duration, called *)
(* with what detect_vehicles returned or with the counts of one frame      *)

\* __init__
min_green_time == 5

max_green_time == 60

\* the fixed timer returned when counts is None
failsafe_time == 30

\* the time returned when the emergency flag is set
emergency_time == 10

\* largest counts tried
MaxCars == 20

MaxTrucks == 5

MaxBikes == 10

\* counts is None
NoCounts ==
    [kind |-> "None", cars |-> 0, trucks |-> 0, bikes |-> 0,
     emergency |-> FALSE]

\* the values of counts tried: None and every dict with the four keys
CountsArgs ==
    {NoCounts} \cup
    {[kind |-> "dict", cars |-> c, trucks |-> t, bikes |-> b,
      emergency |-> e] :
        c \in 0..MaxCars, t \in 0..MaxTrucks, b \in 0..MaxBikes,
        e \in BOOLEAN}

\* calculate_duration without the upper limit
calculate_duration_no_max(counts) ==
    IF counts.kind = "None" THEN failsafe_time
    ELSE IF counts.emergency THEN emergency_time
    ELSE LET total_time == (counts.cars * 2) + (counts.trucks * 3)
                              + (counts.bikes * 1)
         IN  IF total_time < min_green_time THEN min_green_time
             ELSE total_time

calculate_duration(counts) ==
    IF counts.kind = "None" THEN failsafe_time
    ELSE IF counts.emergency THEN emergency_time
    ELSE LET total_time == (counts.cars * 2) + (counts.trucks * 3)
                              + (counts.bikes * 1)
         IN  IF total_time < min_green_time THEN min_green_time
             ELSE IF total_time > max_green_time THEN max_green_time
             ELSE total_time

InitDuration ==
    /\ TSCInit
    /\ SimIdle
    /\ LiveIdle
    /\ args \in CountsArgs
    /\ ret = None

CalculateDuration ==
    /\ ret = None
    /\ ret' = calculate_duration(args)
    /\ UNCHANGED <<clock, tscVars, result, low_since, args, simVars, liveVars>>

SpecDuration == InitDuration /\ [][CalculateDuration]_vars

----------------------------------------------------------------------------
(* The main loop run without end: after the frames in which vehicles may  *)
(* be generated the loop goes on, no vehicle is generated any more, and   *)
(* SignalController.update, which reads only the time since the last      *)
(* change, is followed with the time counted from that change.            *)

\* the draws of a frame of this run: every vehicle is a CAR (the type has
\* no part in the moves)
CrossDraws ==
    {draw \in Draws(traffic_generator.lane) : draw.vehicle_type = "CAR"}

\* a frame of the first MaxFrame frames
CrossFrame ==
    /\ frame_count < MaxFrame
    /\ \E draw \in CrossDraws : FrameStep(draw)

\* a later frame: generate_vehicle returns None for every side
LateFrame ==
    /\ frame_count = MaxFrame
    /\ LET now == clock + 1
           sc == SignalController_update(signal_controller, now,
                                         FramesPerSecond)
       IN  /\ clock' = now - sc.last_change_time
           /\ signal_controller' = [sc EXCEPT !.last_change_time = 0]
           /\ intersection' =
                 Intersection_update(intersection, sc,
                                     [side \in Sides |-> NoDraw],
                                     traffic_generator.spawned + 1)
    /\ UNCHANGED <<tscVars, result, low_since, args, ret, traffic_generator,
                   frame_count, liveVars>>

NextCross == CrossFrame \/ LateFrame

\* a pass of the main loop as the clock shows it: every frame is possible
\* in every state and changes the clock (by one, or back to the time since
\* the signal change it made), and nothing else does
Pass == \E now \in 0..(MaxFrame + 1) : now # clock /\ clock' = now

\* the main loop never stops calling update: the clock changes again and
\* again
SpecCross ==
    /\ InitSim
    /\ [][NextCross]_vars
    /\ WF_clock(Pass)

----------------------------------------------------------------------------
(* Vocabulary of the properties *)

GreenSides == {s \in Sides : signal_states[s] = "GREEN"}

LitSides == {s \in Sides : signal_states[s] \in {"GREEN", "YELLOW"}}

\* the side after `side` in the configured sequence, wrapping at the end
Successor(side) ==
    SIGNAL_SEQUENCE[((IndexOf(SIGNAL_SEQUENCE, side) + 1) % Len(SIGNAL_SEQUENCE)) + 1]

\* this step is a call of update (time does not pass during a call)
UpdateStep == clock' = clock /\ result'.call = "update"

\* this step is an update that changed the active side by the standard path
StandardSwitchStep ==
    /\ current_side' # current_side
    /\ result'.call = "update"
    /\ ~result'.emergency

\* this step is an update that changed the active side by the emergency path
EmergencySwitchStep ==
    /\ current_side' # current_side
    /\ result'.call = "update"
    /\ result'.emergency

\* this step is a manual_override that changed the active side
ManualSwitchStep ==
    /\ current_side' # current_side
    /\ result'.call = "manual_override"

\* target is GREEN and every other side RED, in the state after the step
OnlyGreenAfter(target) ==
    \A s \in Sides : signal_states'[s] = IF s = target THEN "GREEN" ELSE "RED"

\* the side after `side` in the cycle `cycle`
NextInCycle(cycle, side) ==
    cycle[((IndexOf(cycle, side) + 1) % Len(cycle)) + 1]

\* how far a vehicle has come along its origin lane, in the lane's
\* direction of travel
forward(v) ==
    CASE v.original_side = "NORTH" -> v.y
      [] v.original_side = "SOUTH" -> -v.y
      [] v.original_side = "EAST" -> -v.x
      [] v.original_side = "WEST" -> v.x

\* the vehicle is on its origin approach: it has not turned and is not
\* past the stop line
OnApproach(v) == v.side = v.original_side /\ ~v.crossed_signal

Range(seq) == {seq[i] : i \in DOMAIN seq}

\* the vehicles of a side's queue before this update that are not in it
\* after the update
Retired(side) ==
    {v \in Range(intersection.vehicles[side]) :
        \A w \in Range(intersection'.vehicles[side]) :
            w.vehicle_id # v.vehicle_id}

\* the vehicle v of the queue after this update as it was when the update
\* began to move the vehicles: its record before the update or, when the
\* update spawned it, the record its constructor made
BeforeMove(side, v) ==
    IF \E w \in Range(intersection.vehicles[side]) : w.vehicle_id = v.vehicle_id
    THEN CHOOSE w \in Range(intersection.vehicles[side]) :
            w.vehicle_id = v.vehicle_id
    ELSE Vehicle(v.original_side, v.position, v.vehicle_type, v.vehicle_id,
                 v.turn_direction)

\* the vehicle with this id is in one of the lists
Waiting(vehicle_id) ==
    \E side \in Sides : \E v \in Range(intersection.vehicles[side]) :
        v.vehicle_id = vehicle_id

----------------------------------------------------------------------------
\* C1: after any sequence of update and manual_override calls at most one
\* side is GREEN.
C1_AtMostOneGreen == Cardinality(GreenSides) <= 1

\* a standard switch (a YELLOW side is left by it only) and an emergency
\* switch have happened and the last call was a manual override that moved
\* the green
C1_Witness ==
    /\ result.call = "manual_override"
    /\ result.switched
    /\ emergency_mode
    /\ Len(signal_change_history) >= 1
    /\ GreenSides = {current_side}

\* C2: at most one side is GREEN or YELLOW; no side is YELLOW while another
\* is GREEN.
C2_AtMostOneLit == Cardinality(LitSides) <= 1

\* C3: no update switches the active side while the elapsed green time is
\* below MIN_GREEN_TIME, unless it is an emergency switch.
C3_MinGreenFloor ==
    [][StandardSwitchStep => clock - green_start_time >= MIN_GREEN_TIME]_vars

\* an update held the green below the floor although the low-traffic timer
\* had already run its full wait, in a green phase begun by a forced switch
C3_Witness ==
    /\ result.call = "update"
    /\ result.reason = "Continuing current signal"
    /\ green_start_time > 0
    /\ clock - green_start_time = current_green_duration
    /\ current_green_duration < MIN_GREEN_TIME
    /\ low_traffic_start_time # None
    /\ clock - low_traffic_start_time >= CLEARANCE_WAIT_TIME

\* C4: every update made with elapsed >= MAX_GREEN_TIME and no emergency
\* flag in the snapshot switches away from the active side, whatever the
\* counts, with the reason "Maximum time reached".
C4_MaxGreenCeiling ==
    [][(/\ UpdateStep
        /\ clock - green_start_time >= MAX_GREEN_TIME
        /\ result'.flagged = {})
       => /\ current_side' # current_side
          /\ signal_states'[current_side] # "GREEN"
          /\ result'.switched
          /\ result'.reason = "Maximum time reached"]_vars

\* a switch for maximum time has just been made
C4_Witness ==
    /\ result.call = "update"
    /\ result.switched
    /\ result.reason = "Maximum time reached"
    /\ current_green_duration >= MAX_GREEN_TIME
    /\ green_start_time = clock

\* C5: every standard switch moves current_side to its immediate successor
\* in SIGNAL_SEQUENCE, the successor of the last side being the first.
C5_SequenceFidelity ==
    [][StandardSwitchStep => current_side' = Successor(current_side)]_vars

\* a standard switch has wrapped from the last side to the first
C5_Witness ==
    /\ result.call = "update"
    /\ result.switched
    /\ ~result.emergency
    /\ current_side = SIGNAL_SEQUENCE[1]
    /\ signal_states[SIGNAL_SEQUENCE[Len(SIGNAL_SEQUENCE)]] = "YELLOW"
    /\ total_cycles = 1

\* C6: an update whose snapshot flags an emergency on some side other than
\* the active one, and not on the active one, makes a flagged side the
\* active side at once: it is GREEN, every other side is RED and the green
\* timer restarts, at any elapsed time.
C6_EmergencyPreempts ==
    [][(/\ UpdateStep
        /\ result'.flagged # {}
        /\ current_side \notin result'.flagged)
       => /\ current_side' \in result'.flagged
          /\ result'.switched
          /\ result'.emergency
          /\ OnlyGreenAfter(current_side')
          /\ green_start_time' = clock']_vars

\* an emergency switch has just been made below the minimum green time
C6_Witness ==
    /\ result.call = "update"
    /\ result.switched
    /\ result.emergency
    /\ current_green_duration > 0
    /\ current_green_duration < MIN_GREEN_TIME
    /\ green_start_time = clock
    /\ GreenSides = {current_side}

\* C7: with t0 the first update of an unbroken run of updates that find the
\* active side's count <= CLEARANCE_THRESHOLD (t0 at MIN_GREEN_TIME or
\* later, elapsed < MAX_GREEN_TIME, no emergency switch ever made), no
\* update before t0 + CLEARANCE_WAIT_TIME switches, and an update of the
\* run at or after t0 + CLEARANCE_WAIT_TIME switches to the next side with
\* the early-clearance reason.
C7_EarlyClearanceTiming ==
    [][/\ (/\ StandardSwitchStep
           /\ result'.reason # "Maximum time reached"
           /\ ~emergency_mode')
          => /\ low_since # None
             /\ clock - low_since >= CLEARANCE_WAIT_TIME
             /\ result'.reason = "Early clearance - low traffic"
             /\ current_side' = Successor(current_side)
       /\ \A vc \in Snapshots(current_side), o \in Orders :
             (/\ low_since # None
              /\ clock - low_since >= CLEARANCE_WAIT_TIME
              /\ clock - green_start_time < MAX_GREEN_TIME
              /\ Flagged(vc) = {}
              /\ current_vehicles_of(vc, current_side) <= CLEARANCE_THRESHOLD
              /\ update(vc, o))
             => /\ result'.switched
                /\ result'.reason = "Early clearance - low traffic"]_vars

\* C8: manual_override(target) with any side of the sequence, the active
\* one included, returns true and leaves target active and GREEN and every
\* other side RED.
C8_ManualOverrideForces ==
    [][\A target \in Sides :
          manual_override(target)
          => /\ result'.ok
             /\ current_side' = target
             /\ OnlyGreenAfter(target)]_vars

\* C9: manual_override with a side outside the sequence returns false and
\* changes nothing in the controller.
C9_UnknownSideRejected ==
    [][manual_override(UnknownSide)
          => /\ ~result'.ok
             /\ UNCHANGED <<clock, tscVars>>]_vars

\* an unknown side has just been refused in the middle of a run: a side is
\* YELLOW, the low-traffic timer runs
C9_Witness ==
    /\ result.call = "manual_override"
    /\ ~result.ok
    /\ low_traffic_start_time # None
    /\ Len(signal_change_history) >= 1
    /\ clock > green_start_time

\* C10: an update whose snapshot has no entry, or an empty entry, for the
\* active side neither starts nor advances the low-traffic timer and makes
\* no early-clearance switch.
C10_MissingCountSuppressesClearance ==
    [][\A vc \in Snapshots(current_side), o \in Orders :
          (/\ vc[current_side] \in {Absent, EmptyDict}
           /\ update(vc, o))
          => /\ low_traffic_start_time' \in {low_traffic_start_time, None}
             /\ result'.reason # "Early clearance - low traffic"]_vars

\* C17: in a standard switch the side that was GREEN stops being GREEN and
\* no side is GREEN after that update: the next side does not become GREEN
\* in the update in which the previous side left GREEN (an ALL_RED dwell
\* lies between them).
C17_AllRedDwell ==
    [][\A s \in Sides :
          (/\ UpdateStep
           /\ ~result'.emergency
           /\ signal_states[s] = "GREEN"
           /\ signal_states'[s] # "GREEN")
          => \A t \in Sides : signal_states'[t] # "GREEN"]_vars

\* C18: an update that begins a standard switch keeps the active side, sets
\* it YELLOW and leaves no side GREEN.
C18_YellowOnActiveSide ==
    [][(/\ UpdateStep
        /\ result'.switched
        /\ ~result'.emergency)
       => /\ current_side' = current_side
          /\ signal_states'[current_side] = "YELLOW"
          /\ \A t \in Sides : signal_states'[t] # "GREEN"]_vars

C11_InvalidTimingRejected ==
    ret \in {"constructed", "running"}
    => /\ args.min_green_time <= args.max_green_time
       /\ \A d \in {args.max_green_time, args.min_green_time,
                     args.yellow_time, args.all_red_time,
                     args.clearance_wait_time} : d >= 0

\* C15: for min_time <= max_time and vehicle_count >= 0,
\* calculate_green_time returns min_time for vehicle_count = 0, max_time
\* whenever min_time + 2 * vehicle_count >= max_time, and always a value
\* from min_time to max_time.
C15_GreenTimeContract ==
    (ret # None /\ args.min_time <= args.max_time)
    => /\ args.vehicle_count = 0 => ret = args.min_time
       /\ args.min_time + 2 * args.vehicle_count >= args.max_time
             => ret = args.max_time
       /\ args.min_time <= ret
       /\ ret <= args.max_time

\* the call with the defaults and a count that reaches the cap has returned
C15_Witness ==
    /\ args.min_time = DEFAULT_MIN_TIME
    /\ args.max_time = DEFAULT_MAX_TIME
    /\ args.vehicle_count > 0
    /\ args.min_time + 2 * args.vehicle_count > args.max_time
    /\ ret = DEFAULT_MAX_TIME

\* C12: after every update of the intersection, of two vehicles of a queue
\* that are both on their origin approach (neither has turned, neither is
\* past the stop line) the one with the smaller index is at least as far
\* forward as the other.
C12_QueueOrder ==
    \A side \in Sides :
        \A i, j \in 1..Len(intersection.vehicles[side]) :
            (/\ i < j
             /\ OnApproach(intersection.vehicles[side][i])
             /\ OnApproach(intersection.vehicles[side][j]))
            => forward(intersection.vehicles[side][i])
                  >= forward(intersection.vehicles[side][j])

\* C16: when a side turns GREEN in the SignalController it is the side after
\* the one that held the green in the cycle NORTH, EAST, SOUTH, WEST.
C16_GreenOrder ==
    [][\A side \in Sides :
          (/\ signal_controller.signals[side] # "GREEN"
           /\ signal_controller'.signals[side] = "GREEN")
          => side = NextInCycle(DocumentedCycle,
                                signal_controller.current_side)]_vars

\* C13: in an update of the intersection a vehicle that has not crossed the
\* stop line keeps its place when, at the moment the update handles it (the
\* vehicles before it in the list have made their move), one of those
\* vehicles is closer than min_distance along the lane, whatever the signal
\* of its side shows.
C13_FollowingGap ==
    [][\A side \in Sides :
          \A i \in 1..Len(intersection'.vehicles[side]) :
              LET after == intersection'.vehicles[side][i]
                  before == BeforeMove(side, after)
              IN  (/\ ~before.crossed_signal
                   /\ \E j \in 1..(i - 1) :
                         calculate_distance_to(
                             before, intersection'.vehicles[side][j])
                           < min_distance)
                  => /\ after.x = before.x
                     /\ after.y = before.y]_vars

\* C13 witness: after the last frame in which a vehicle can be spawned a
\* vehicle still stands where it was spawned, its side GREEN, with a vehicle
\* before it in the list closer than min_distance.
C13_Witness ==
    \E side \in Sides :
        \E i \in 2..Len(intersection.vehicles[side]) :
            LET v == intersection.vehicles[side][i]
                made == Vehicle(v.original_side, v.position, v.vehicle_type,
                                v.vehicle_id, v.turn_direction)
            IN  /\ frame_count > 257
                /\ signal_controller.signals[side] = "GREEN"
                /\ ~v.crossed_signal
                /\ v.x = made.x
                /\ v.y = made.y
                /\ \E j \in 1..(i - 1) :
                      calculate_distance_to(v, intersection.vehicles[side][j])
                        < min_distance

\* C14: every update removes from the queues exactly the vehicles that
\* crossed in it and adds each of them once to total_vehicles_crossed and
\* to the counter of its type; after the update no queue holds a crossed
\* vehicle and every vehicle ever spawned is either in its queue or counted.
C14_ExactlyOnceRetirement ==
    [][LET retired == UNION {Retired(side) : side \in Sides}
       IN  /\ \A v \in retired : check_if_crossed(move(v))
           /\ intersection'.total_vehicles_crossed
                 = intersection.total_vehicles_crossed + Cardinality(retired)
           /\ \A t \in VehicleTypes :
                 intersection'.vehicles_crossed_by_type[t]
                   = intersection.vehicles_crossed_by_type[t]
                       + Cardinality({v \in retired : v.vehicle_type = t})
           /\ \A side \in Sides :
                 \A v \in Range(intersection'.vehicles[side]) : ~v.crossed
           /\ traffic_generator'.spawned
                 = intersection'.total_vehicles_crossed
                     + Cardinality(UNION {Range(intersection'.vehicles[side]) :
                                             side \in Sides})]_vars

\* C14 witness: two vehicles of different types have crossed and been
\* counted, and a later vehicle is still in the queue.
C14_Witness ==
    /\ intersection.total_vehicles_crossed = 2
    /\ \E t, u \in VehicleTypes :
          /\ t # u
          /\ intersection.vehicles_crossed_by_type[t] = 1
          /\ intersection.vehicles_crossed_by_type[u] = 1
    /\ \E side \in Sides : intersection.vehicles[side] # <<>>

\* C19: in the live mode the mapping the GUI thread gets from
\* get_signal_states never has two sides GREEN, and once a refresh has
\* also read get_current_side that side is GREEN in the mapping.
C19_GuiSeesConsistentSignals ==
    /\ gui.pc \in {"got_signal_states", "refreshed"}
          => Cardinality({side \in Sides :
                             gui.signal_states[side] = "GREEN"}) <= 1
    /\ gui.pc = "refreshed"
          => gui.signal_states[gui.current_side] = "GREEN"

\* C21: an update that switches to a side for an emergency leaves
\* emergency_mode true and emergency_side equal to that side.
C21_EmergencySideRecorded ==
    [][EmergencySwitchStep
          => /\ emergency_mode'
             /\ emergency_side' = current_side']_vars

\* C22: an update that finds the active side's count above
\* CLEARANCE_THRESHOLD leaves the low-traffic timer null, whether or not it
\* returns early for an emergency or for the minimum green.
C22_HighCountClearsLowTimer ==
    [][\A vc \in Snapshots(current_side), o \in Orders :
          (/\ current_vehicles_of(vc, current_side) > CLEARANCE_THRESHOLD
           /\ update(vc, o))
          => low_traffic_start_time' = None]_vars

\* C23: after a manual_override or an emergency update that changed the
\* active side the green timer starts at the time of the call and the
\* low-traffic timer is null.
C23_ForcedSwitchResetsTimers ==
    [][(EmergencySwitchStep \/ ManualSwitchStep)
          => /\ green_start_time' = clock
             /\ low_traffic_start_time' = None]_vars

\* C24: every step that changes the active side appends exactly one event
\* to the history, from the old side to the new one, so the length of the
\* history (the signal_changes statistic) counts the changes.
C24_EveryChangeRecorded ==
    [][current_side' # current_side
          => /\ Len(signal_change_history') = Len(signal_change_history) + 1
             /\ signal_change_history'[Len(signal_change_history')].from_side
                   = current_side
             /\ signal_change_history'[Len(signal_change_history')].to_side
                   = current_side']_vars

\* C25: when update is called at every tick, time keeps advancing, no
\* snapshot carries an emergency flag and manual_override is never called,
\* every side is GREEN infinitely often, whatever the counts are.
C25_EverySideGreenAgain ==
    \A side \in Sides : []<>(signal_states[side] = "GREEN")

\* C25 witness: the green has gone round the sequence MaxCycles times and
\* a side whose count never fell to the threshold has just lost it at the
\* maximum green time.
C25_Witness ==
    /\ total_cycles = MaxCycles
    /\ current_side = SIGNAL_SEQUENCE[Len(SIGNAL_SEQUENCE)]
    /\ result.switched
    /\ result.reason = "Maximum time reached"
    /\ low_since = None

\* C26: a vehicle spawned in an update is the last of its side's list and
\* the place its constructor gave it is behind every vehicle that was in
\* the list and on the approach, by min_distance or more.
C26_SpawnedAtBack ==
    [][\A side \in Sides :
          \A i \in 1..Len(intersection'.vehicles[side]) :
              LET after == intersection'.vehicles[side][i]
                  made == BeforeMove(side, after)
              IN  (\A w \in Range(intersection.vehicles[side]) :
                      w.vehicle_id # after.vehicle_id)
                  => /\ i = Len(intersection'.vehicles[side])
                     /\ \A w \in Range(intersection.vehicles[side]) :
                           OnApproach(w)
                           => calculate_distance_to(made, w) >= min_distance]_vars

\* C27: after every update each side's list holds at most
\* MAX_VEHICLES_PER_SIDE vehicles and has grown by at most one vehicle.
C27_QueueCapacity ==
    [][\A side \in Sides :
          /\ Len(intersection'.vehicles[side]) <= MAX_VEHICLES_PER_SIDE
          /\ Len(intersection'.vehicles[side])
                <= Len(intersection.vehicles[side]) + 1]_vars

\* C27 witness: a list is at capacity and a frame in which
\* should_generate_vehicle returned True has made no vehicle.
C27_Witness ==
    /\ Len(intersection.vehicles[traffic_generator.lane])
          = MAX_VEHICLES_PER_SIDE
    /\ frame_count - traffic_generator.spawned > MaxSkipped

\* C28: in an update a vehicle that has not crossed the stop line and is
\* in the zone before it keeps its place when the signal of its side is
\* not GREEN, YELLOW included.
C28_StopsUnlessGreen ==
    [][\A side \in Sides :
          \A i \in 1..Len(intersection'.vehicles[side]) :
              LET after == intersection'.vehicles[side][i]
                  before == BeforeMove(side, after)
              IN  (/\ ~before.crossed_signal
                   /\ approaching_stop_line(before)
                   /\ signal_controller'.signals[side] # "GREEN")
                  => /\ after.x = before.x
                     /\ after.y = before.y]_vars

\* C29: no vehicle crosses the stop line in an update in which the signal
\* of its origin side is RED: crossed_signal does not turn true in it.
C29_NoCrossingOnRed ==
    [][\A side \in Sides :
          \A i \in 1..Len(intersection'.vehicles[side]) :
              LET after == intersection'.vehicles[side][i]
                  before == BeforeMove(side, after)
              IN  (~before.crossed_signal /\ after.crossed_signal)
                  => signal_controller'.signals[after.original_side]
                        # "RED"]_vars

\* C29 witness: the first vehicle of a list stands in the zone before the
\* stop line, not across it, while another side is at the end of its green
\* (YELLOW), so its own side has been RED for a whole green.
C29_Witness ==
    \E side \in Sides :
        /\ intersection.vehicles[side] # <<>>
        /\ ~intersection.vehicles[side][1].crossed_signal
        /\ approaching_stop_line(intersection.vehicles[side][1])
        /\ signal_controller.signals[side] = "RED"
        /\ signal_controller.signals[signal_controller.current_side]
              = "YELLOW"

\* C30: a vehicle whose crossed_signal is true keeps it true and advances
\* by VEHICLE_SPEED in every update, whatever its side's signal shows and
\* whatever is ahead of it, as long as it is in its list.
C30_CommittedKeepsMoving ==
    [][\A side \in Sides :
          \A i \in 1..Len(intersection'.vehicles[side]) :
              LET after == intersection'.vehicles[side][i]
                  before == BeforeMove(side, after)
              IN  before.crossed_signal
                  => /\ after.crossed_signal
                     /\ Abs(after.x - before.x) + Abs(after.y - before.y)
                           = VEHICLE_SPEED]_vars

\* C30 witness: a vehicle past the stop line is on its way through the
\* intersection, closer than min_distance to a vehicle before it in the
\* list, while another side is at the end of its green (YELLOW), so the
\* vehicle has moved through a whole green of that side with its own
\* signal RED.
C30_Witness ==
    \E side \in Sides :
        \E i \in 1..Len(intersection.vehicles[side]) :
            /\ intersection.vehicles[side][i].crossed_signal
            /\ ~intersection.vehicles[side][i].crossed
            /\ signal_controller.signals[side] = "RED"
            /\ signal_controller.signals[signal_controller.current_side]
                  = "YELLOW"
            /\ \E j \in 1..(i - 1) :
                  calculate_distance_to(intersection.vehicles[side][i],
                                        intersection.vehicles[side][j])
                    < min_distance

\* C31: in the simulator a vehicle's side changes at most once, in the first
\* move that begins within the centre threshold: a LEFT vehicle goes NORTH
\* to WEST, WEST to SOUTH, SOUTH to EAST, EAST to NORTH, a RIGHT vehicle by
\* the reverse rotation, and a STRAIGHT vehicle's side never changes.  A
\* vehicle whose is_turning is unset has made no move within the threshold
\* (every such move sets it), and once it is set the side stays.
C31_TurnsOnce ==
    [][\A side \in Sides : \A v \in Range(intersection'.vehicles[side]) :
          LET w == BeforeMove(side, v)
              left == [s \in Sides |->
                         CASE s = "NORTH" -> "WEST" [] s = "WEST" -> "SOUTH"
                           [] s = "SOUTH" -> "EAST" [] s = "EAST" -> "NORTH"]
              right == [s \in Sides |-> CHOOSE t \in Sides : left[t] = s]
              rotated == CASE w.turn_direction = 1 -> left[w.side]
                           [] w.turn_direction = 2 -> right[w.side]
                           [] OTHER -> w.side
          IN  /\ v.side # w.side =>
                    /\ ~w.is_turning /\ v.is_turning
                    /\ w.side = w.original_side
                    /\ at_intersection_center(w)
                    /\ v.side = rotated
              /\ (~w.is_turning /\ at_intersection_center(w) /\ v # w) =>
                    v.is_turning /\ v.side = rotated
              /\ w.is_turning => v.is_turning /\ v.side = w.side
              /\ ~v.is_turning => v.side = v.original_side
              /\ v.turn_direction = 0 => v.side = v.original_side
        ]_vars

\* a LEFT vehicle from NORTH has turned to WEST and moved on along its new
\* side
C31_Witness ==
    \E v \in Range(intersection.vehicles["NORTH"]) :
        /\ v.turn_direction = 1
        /\ v.side = "WEST"
        /\ v.x > Vehicle("NORTH", 0, "CAR", 0, 0).x + VEHICLE_SPEED

\* C32: in every state the SignalController reaches by update calls exactly
\* one side is not RED (it is GREEN or YELLOW), that side is current_side,
\* and current_side is sides[current_side_index]; never are all four sides
\* RED or two sides not RED.
C32_ExactlyOneNotRed ==
    LET sc == signal_controller
    IN  /\ {side \in Sides : sc.signals[side] # "RED"} = {sc.current_side}
        /\ sc.signals[sc.current_side] \in {"GREEN", "YELLOW"}
        /\ sc.current_side_index \in 0..(Len(SC_sides) - 1)
        /\ sc.current_side = SC_sides[sc.current_side_index + 1]

\* the cycle has wrapped round: the first side is the current side again,
\* after the last side of the list was YELLOW and was set RED
C32_Witness ==
    /\ signal_controller.current_side_index = 0
    /\ signal_controller.last_change_time > 0
    /\ signal_controller.signals[SC_sides[1]] = "YELLOW"

\* C33: in the SignalController each side's signal follows the cycle GREEN,
\* YELLOW, RED only: a GREEN side turns YELLOW or stays, a YELLOW side turns
\* RED or stays, never GREEN to RED; a side turns YELLOW only when it has
\* been GREEN for GREEN_LIGHT_DURATION or more and RED only when it has been
\* YELLOW for YELLOW_LIGHT_DURATION or more (last_change_time is the time
\* of the call that last changed a signal, which is the call that gave the
\* side its present colour); one update makes at most one of the
\* transitions GREEN to YELLOW and YELLOW to RED.
C33_GreenYellowRed ==
    [][LET old == signal_controller.signals
           new == signal_controller'.signals
           since == clock - signal_controller.last_change_time
           toYellow == {side \in Sides : old[side] = "GREEN" /\ new[side] # "GREEN"}
           toRed == {side \in Sides : old[side] = "YELLOW" /\ new[side] # "YELLOW"}
       IN  /\ \A side \in Sides :
                 new[side] \in CASE old[side] = "GREEN" -> {"GREEN", "YELLOW"}
                                [] old[side] = "YELLOW" -> {"YELLOW", "RED"}
                                [] old[side] = "RED" -> {"RED", "GREEN"}
           /\ toYellow # {} => since >= GREEN_LIGHT_DURATION
           /\ toRed # {} => since >= YELLOW_LIGHT_DURATION
           /\ Cardinality(toYellow \cup toRed) <= 1
           /\ signal_controller'.last_change_time =
                 IF new # old THEN clock
                 ELSE signal_controller.last_change_time
      ]_vars

\* the first side has been GREEN, YELLOW and is RED, and the second side is
\* YELLOW after its own green
C33_Witness ==
    /\ signal_controller.signals[SC_sides[1]] = "RED"
    /\ signal_controller.signals[SC_sides[2]] = "YELLOW"
    /\ signal_controller.last_change_time
          >= 2 * GREEN_LIGHT_DURATION + YELLOW_LIGHT_DURATION

\* C34: calculate_duration returns a green time within [5, 60] for every
\* input: 30 when counts is None, 10 when the emergency flag is set whatever
\* the counts, and otherwise 2*cars + 3*trucks + 1*bikes clamped to [5, 60].
C34_DurationContract ==
    ret # None =>
        LET weighted == 2 * args.cars + 3 * args.trucks + args.bikes
        IN  /\ ret \in 5..60
            /\ ret = CASE args.kind = "None" -> 30
                        [] args.kind = "dict" /\ args.emergency -> 10
                        [] OTHER -> IF weighted < 5 THEN 5
                                    ELSE IF weighted > 60 THEN 60
                                    ELSE weighted

\* a call without the emergency flag whose weighted sum is above 60 has
\* returned
C34_Witness ==
    /\ ret = 60
    /\ args.kind = "dict"
    /\ ~args.emergency
    /\ 2 * args.cars + 3 * args.trucks + args.bikes > 60

\* C35: stopping the live system halts its tasks at tick boundaries: once
\* stop() has returned the processing thread makes no further call of
\* update, no capture thread reads from a capture that stop has released,
\* and a tick in progress when stop is requested is completed, not cut in
\* the middle.
C35_StopAtTickBoundary ==
    [][/\ threads.stop \in {"returned", "exited"} =>
             ~(threads.processing = "update" /\ threads'.processing = "sleep")
       /\ system.released =>
             ~(threads.capture = "read" /\ threads'.capture = "test_running")
       /\ threads'.processing = "killed" =>
             threads.processing \in {"test_running", "killed"}
      ]_vars

\* C36: update is deterministic in the content of the snapshot: the outcome
\* of a call (switch or hold, and the side switched to) is the one that the
\* same per-side values give in every iteration order of the mapping, also
\* when two or more sides, the active side possibly among them, carry an
\* emergency flag.
C36_OrderIndependent ==
    [][UpdateStep =>
          \A order \in Orders :
             LET flagged == result'.flagged
                 first == CHOOSE i \in 1..Len(order) :
                             /\ order[i] \in flagged
                             /\ \A j \in 1..(i - 1) : order[j] \notin flagged
             IN  flagged # {} =>
                    /\ result'.detected = order[first]
                    /\ result'.switched = (order[first] # current_side)
                    /\ current_side' = order[first]
      ]_vars

\* C37: after every update of the Intersection the number of vehicles ever
\* spawned is the sum of the four queue lengths plus total_vehicles_crossed,
\* total_vehicles_crossed is the sum of the counters by type, and every
\* live vehicle is in exactly one queue, that of its origin side, also
\* after it has turned.
C37_VehiclesAccounted ==
    LET queue(side) == intersection.vehicles[side]
        places == UNION {{<<side, i>> : i \in 1..Len(queue(side))} :
                            side \in Sides}
        by_type == intersection.vehicles_crossed_by_type
    IN  /\ traffic_generator.spawned
              = Len(queue("NORTH")) + Len(queue("SOUTH"))
                  + Len(queue("EAST")) + Len(queue("WEST"))
                  + intersection.total_vehicles_crossed
        /\ intersection.total_vehicles_crossed
              = by_type["CAR"] + by_type["TRUCK"] + by_type["BUS"]
        /\ \A p \in places : queue(p[1])[p[2]].original_side = p[1]
        /\ \A p, q \in places :
              queue(p[1])[p[2]].vehicle_id = queue(q[1])[q[2]].vehicle_id
                 => p = q

\* a vehicle that turned has crossed and been counted while a later
\* vehicle is still in the queue
C37_Witness ==
    /\ intersection.total_vehicles_crossed = 1
    /\ traffic_generator.turning = 1
    /\ \E side \in Sides :
          /\ intersection.vehicles[side] # <<>>
          /\ \A v \in Range(intersection.vehicles[side]) :
                v.turn_direction = 0

\* C38: after every update and manual_override call current_side is
\* signal_sequence[current_side_index], so a standard switch that follows an
\* emergency or manual jump to a side leaves from that side for its
\* successor in the sequence, and the index follows.
C38_CycleResumesFromTarget ==
    [][/\ current_side_index' \in 0..(Len(SIGNAL_SEQUENCE) - 1)
       /\ current_side' = SIGNAL_SEQUENCE[current_side_index' + 1]
       /\ (EmergencySwitchStep \/ ManualSwitchStep) =>
             current_side_index' = IndexOf(SIGNAL_SEQUENCE, current_side')
       /\ StandardSwitchStep =>
             LET last == signal_change_history'[Len(signal_change_history')]
             IN  /\ last.from_side = current_side
                 /\ last.to_side = Successor(current_side)
                 /\ current_side_index'
                       = (IndexOf(SIGNAL_SEQUENCE, current_side) + 1)
                            % Len(SIGNAL_SEQUENCE)
      ]_vars

\* the first standard switch of a run has left from a side that is not the
\* initial one: a jump went to that side before, and the switch went on to
\* its successor
C38_Witness ==
    /\ Len(signal_change_history) = 1
    /\ signal_change_history[1].from_side # SIGNAL_SEQUENCE[1]
    /\ signal_change_history[1].to_side
          = Successor(signal_change_history[1].from_side)
    /\ current_side = signal_change_history[1].to_side
    /\ result.call = "update"
    /\ result.switched
    /\ ~result.emergency

\* C39: in the simulation, when update keeps being called and time goes on
\* (so every side is GREEN again and again), every vehicle that was spawned
\* is in the end crossed and removed from its list, wherever it waits:
\* before the stop line, behind another vehicle, or behind a vehicle of the
\* list that was spawned earlier and stands farther back; once no vehicle
\* is generated any more the lists stay empty and every vehicle is counted.
C39_EveryVehicleCrosses ==
    /\ \A vehicle_id \in 1..Cardinality(SpawnFrames) :
          Waiting(vehicle_id) ~> ~Waiting(vehicle_id)
    /\ <>[](/\ \A side \in Sides : intersection.vehicles[side] = <<>>
            /\ intersection.total_vehicles_crossed = traffic_generator.spawned)

\* the fourth vehicle of SOUTH, spawned at slot 1 while the third, spawned
\* at slot 2, was still behind that slot, has waited for the third to pass,
\* has passed the stop line, and the third has crossed
C39_Witness ==
    /\ traffic_generator.spawned = 4
    /\ intersection.total_vehicles_crossed = 3
    /\ \E v \in Range(intersection.vehicles["SOUTH"]) :
          /\ v.vehicle_id = 4
          /\ v.position = 1
          /\ v.crossed_signal

====
